---- MODULE Spec2Model ----
(***************************************************************************)
(* Off-chain mirror of the sealed-bid auction program: the Helius webhook  *)
(* that reconciles ledger events into the auctions / bids / fulfillments   *)
(* tables, the auction routes (create, PATCH, DELETE) and the bid          *)
(* submission route.  Every database call is one atomic step; a route that *)
(* reads and later writes is split at the await between the two, so that   *)
(* other requests interleave there.                                        *)
(***************************************************************************)
EXTENDS Integers, Sequences, FiniteSets, TLC

VARIABLES now, auctions, bids, fulfillments, hook, bidReq, del, resp,
          limiter, pool, health, retry, built

mirror == <<auctions, bids, fulfillments>>
vars == <<now, auctions, bids, fulfillments, hook, bidReq, del, resp,
          limiter, pool, health, retry, built>>

(***************************************************************************)
(* Bounds of the model.                                                    *)
(***************************************************************************)
MaxTime == 2
MaxAuctions == 2
MaxBids == 2
MaxFulfillments == 2
MaxBidCount == 2
MaxBatch == 2
MaxInflight == 2
MaxClock == 120
MaxFailureCount == 4
MaxCreated == 6
MaxRetries == 7
MinProofLen == 120
MaxProofLen == 220

(***************************************************************************)
(* Values.                                                                 *)
(***************************************************************************)
NULL == "null"
NoSession == "nosession"
Statuses == {"pending", "active", "revealing", "settled", "cancelled"}

\* rows of the users table: id, privy_id, wallet_addresses[0]
UsersTable ==
  { [id |-> "u1", privy_id |-> "p1", wallet |-> "w1"],
    [id |-> "u2", privy_id |-> "p2", wallet |-> "w2"] }
Users == {u.id : u \in UsersTable}
\* "p3" is a session without a users row
Sessions == {"p1", "p2", "p3", NoSession}
Wallets == {"w1", "w2", "w3"}

OnChainAuctions == {"A1", "A2"}
OnChainBids == {"B1", "B2"}
Amounts == {5, 7}
Salts == {"s1"}
Duration == 1

\* SHA-256(amountLE64 || salt || bidderKey), as an injective digest
generateCommitmentHash(amount, salt, bidderKey) == <<amount, salt, bidderKey>>

\* the commitments that clients submit: to the amount 5, under either wallet
CommitmentHashes ==
  {generateCommitmentHash(5, s, w) : s \in Salts, w \in {"w1", "w2"}}

Max(S) == CHOOSE x \in S : \A y \in S : y <= x

\* data: null of a query
NoRow == [none |-> TRUE]

\* .single(): the one row matching; no data when no row or several rows match
Single(rows, Match(_)) ==
  LET hit == {i \in DOMAIN rows : Match(rows[i])}
  IN IF Cardinality(hit) = 1 THEN rows[CHOOSE i \in hit : TRUE] ELSE NoRow

\* users row of a session
UserOfSession(s) ==
  LET hit == {u \in UsersTable : u.privy_id = s}
  IN IF Cardinality(hit) = 1 THEN CHOOSE u \in hit : TRUE ELSE NoRow

\* users row whose wallet_addresses contains the wallet
UserOfWallet(w) ==
  LET hit == {u \in UsersTable : u.wallet = w}
  IN IF Cardinality(hit) = 1 THEN CHOOSE u \in hit : TRUE ELSE NoRow

PrivyOfUser(id) == (CHOOSE u \in UsersTable : u.id = id).privy_id

WalletOfUser(id) == (CHOOSE u \in UsersTable : u.id = id).wallet


(***************************************************************************)
(* The mirror as one value, for the event handlers.                        *)
(***************************************************************************)
Mirror == [auctions |-> auctions, bids |-> bids, fulfillments |-> fulfillments]

\* update(...).eq(...): every row that matches is updated
UpdateWhere(rows, Match(_), Set(_)) ==
  [i \in DOMAIN rows |-> IF Match(rows[i]) THEN Set(rows[i]) ELSE rows[i]]

(***************************************************************************)
(* Webhook signature.                                                      *)
(***************************************************************************)
HELIUS_WEBHOOK_SECRET == "secret"
RawBodies == {"body1"}
HexLen == 64

\* createHmac('sha256', key).update(payload).digest('hex')
HmacHex(key, payload) == [text |-> <<key, payload>>, len |-> HexLen]

\* values of the x-helius-signature header: absent, the digest of the body
\* under the secret or under another key, the digest of another body under the
\* secret, and a string of another length
NoHeader == [text |-> <<>>, len |-> 0]

SigHeaders ==
  {NoHeader}
    \cup {HmacHex(k, b) : k \in {HELIUS_WEBHOOK_SECRET, "guess"}, b \in RawBodies}
    \cup {HmacHex(HELIUS_WEBHOOK_SECRET, "body0")}
    \cup {[text |-> <<HELIUS_WEBHOOK_SECRET, b>>, len |-> 10] : b \in RawBodies}

\* crypto.timingSafeEqual throws a RangeError on buffers of different length
\* ("throw"), and otherwise answers "true" or "false"
timingSafeEqual(a, b) ==
  IF a.len # b.len THEN "throw" ELSE IF a = b THEN "true" ELSE "false"

\* the signature is taken for good whenever it has the length of a digest
verifySignature_lengthOnly(payload, signature) ==
  IF signature.len # HexLen THEN "throw" ELSE "true"

verifySignature(payload, signature) ==
  timingSafeEqual(signature, HmacHex(HELIUS_WEBHOOK_SECRET, payload))

(***************************************************************************)
(* Ledger events.                                                          *)
(***************************************************************************)
Events ==
       {[type |-> "AUCTION_CREATED", auctionPubkey |-> a, seller |-> u]
          : a \in OnChainAuctions, u \in Users}
  \cup {[type |-> "BID_SUBMITTED", auctionId |-> a, bidId |-> b, commitmentHash |-> h]
          : a \in OnChainAuctions, b \in OnChainBids, h \in CommitmentHashes}
  \cup {[type |-> "BID_REVEALED", bidId |-> b, amount |-> x]
          : b \in OnChainBids, x \in Amounts}
  \cup {[type |-> "AUCTION_SETTLED", auctionId |-> a, winner |-> w]
          : a \in OnChainAuctions, w \in Wallets}
  \cup {[type |-> t] : t \in {"DELIVERY_CONFIRMED", "DISPUTE_RAISED", "SOMETHING_ELSE"}}

\* the most recent row of the seller becomes active, whatever its status
handleAuctionCreated_anyStatus(m, data) ==
  LET rows == {i \in DOMAIN m.auctions : m.auctions[i].seller_id = data.seller}
  IN IF rows = {} THEN m
     ELSE [m EXCEPT !.auctions[Max(rows)] =
             [@ EXCEPT !.on_chain_id = data.auctionPubkey, !.status = "active"]]

\* the most recent pending row of the seller becomes active
handleAuctionCreated(m, data) ==
  LET pend == {i \in DOMAIN m.auctions :
                 /\ m.auctions[i].seller_id = data.seller
                 /\ m.auctions[i].status = "pending"}
  IN IF pend = {} THEN m
     ELSE [m EXCEPT !.auctions[Max(pend)] =
             [@ EXCEPT !.on_chain_id = data.auctionPubkey, !.status = "active"]]

\* the database function behind rpc('increment_bid_count')
increment_bid_count(rows, auction_on_chain_id) ==
  UpdateWhere(rows, LAMBDA r : r.on_chain_id = auction_on_chain_id,
                    LAMBDA r : [r EXCEPT !.bid_count = @ + 1])

handleBidSubmitted(m, data) ==
  [m EXCEPT
     !.bids = UpdateWhere(@,
                LAMBDA b : /\ b.commitment_hash = data.commitmentHash
                           /\ b.auction_id = data.auctionId,
                LAMBDA b : [b EXCEPT !.on_chain_id = data.bidId]),
     !.auctions = increment_bid_count(@, data.auctionId)]

handleBidRevealed(m, data) ==
  [m EXCEPT
     !.bids = UpdateWhere(@,
                LAMBDA b : b.on_chain_id = data.bidId,
                LAMBDA b : [b EXCEPT !.revealed = TRUE, !.amount = data.amount])]

handleAuctionSettled(m, data) ==
  LET updated == UpdateWhere(m.auctions,
                   LAMBDA r : r.on_chain_id = data.auctionId,
                   LAMBDA r : [r EXCEPT !.status = "settled"])
      auction == Single(updated, LAMBDA r : r.on_chain_id = data.auctionId)
      winnerUser == UserOfWallet(data.winner)
  IN [m EXCEPT
        !.auctions = updated,
        !.fulfillments =
           IF auction # NoRow /\ winnerUser # NoRow
           THEN Append(@, [auction_id |-> data.auctionId,
                           buyer_id |-> winnerUser.id,
                           seller_id |-> auction.seller_id,
                           status |-> "pending"])
           ELSE @]

\* the switch of the webhook's loop
Dispatch(m, event) ==
  CASE event.type = "AUCTION_CREATED" -> handleAuctionCreated(m, event)
    [] event.type = "BID_SUBMITTED"   -> handleBidSubmitted(m, event)
    [] event.type = "BID_REVEALED"    -> handleBidRevealed(m, event)
    [] event.type = "AUCTION_SETTLED" -> handleAuctionSettled(m, event)
    [] OTHER -> m

KnownTypes == {"AUCTION_CREATED", "BID_SUBMITTED", "BID_REVEALED", "AUCTION_SETTLED",
               "DELIVERY_CONFIRMED", "DISPUTE_RAISED"}

\* the loop ends at an event of unknown type
RECURSIVE ProcessBatch_stopAtUnknown(_, _)
ProcessBatch_stopAtUnknown(m, events) ==
  IF events = <<>> \/ Head(events).type \notin KnownTypes THEN m
  ELSE ProcessBatch_stopAtUnknown(Dispatch(m, Head(events)), Tail(events))

\* the loop of the webhook over the events of a batch
RECURSIVE ProcessBatch(_, _)
ProcessBatch(m, events) ==
  IF events = <<>> THEN m
  ELSE ProcessBatch(Dispatch(m, Head(events)), Tail(events))

\* the counters and tables stay inside the bounds of the model
WithinBounds(m) ==
  /\ \A i \in DOMAIN m.auctions : m.auctions[i].bid_count <= MaxBidCount
  /\ Len(m.fulfillments) <= MaxFulfillments

(***************************************************************************)
(* Responses.                                                              *)
(***************************************************************************)
Response(op, status, error) ==
  [op |-> op, status |-> status, error |-> error, bidId |-> 0, tx |-> <<>>]

IdleHook == [pc |-> "idle", body |-> NULL, sig |-> NoHeader, left |-> 0]

(***************************************************************************)
(* POST /api/webhooks/helius                                               *)
(***************************************************************************)
\* the request arrives: signature check, then the loop starts
WebhookPOST(body, signature, n) ==
  /\ hook.pc = "idle"
  /\ IF signature = NoHeader
     THEN /\ resp' = Response("webhook", 401, "Missing signature")
          /\ hook' = hook
     ELSE LET ok == verifySignature(body, signature)
          IN IF ok = "throw"
             THEN /\ resp' = Response("webhook", 500, "Internal server error")
                  /\ hook' = hook
             ELSE IF ok = "false"
             THEN /\ resp' = Response("webhook", 401, "Invalid signature")
                  /\ hook' = hook
             ELSE /\ hook' = [pc |-> "run", body |-> body, sig |-> signature, left |-> n]
                  /\ resp' = resp
  /\ UNCHANGED <<now, auctions, bids, fulfillments, bidReq, del, limiter, pool, health, retry,
                 built>>

\* one turn of the loop over the events of the batch
WebhookEvent(event) ==
  /\ hook.pc = "run"
  /\ hook.left > 0
  /\ LET m == Dispatch(Mirror, event)
     IN /\ WithinBounds(m)
        /\ auctions' = m.auctions
        /\ bids' = m.bids
        /\ fulfillments' = m.fulfillments
  /\ hook' = [hook EXCEPT !.left = @ - 1]
  /\ UNCHANGED <<now, bidReq, del, resp, limiter, pool, health, retry, built>>

\* the loop is over: { success: true }
WebhookDone ==
  /\ hook.pc = "run"
  /\ hook.left = 0
  /\ hook' = IdleHook
  /\ resp' = Response("webhook", 200, "")
  /\ UNCHANGED <<now, auctions, bids, fulfillments, bidReq, del, limiter, pool, health, retry,
                 built>>


(***************************************************************************)
(* POST /api/auctions                                                      *)
(***************************************************************************)
\* upstream: the IPFS upload and the transaction build succeed or throw
\* POST /api/auctions while the table holds fewer than maxRows rows
CreateAuctionWithin(session, upstream, maxRows) ==
  /\ Len(auctions) < maxRows
  /\ LET user == UserOfSession(session)
     IN IF session = NoSession
        THEN /\ resp' = Response("create", 401, "Unauthorized")
             /\ auctions' = auctions
        ELSE IF user = NoRow
        THEN /\ resp' = Response("create", 404, "User not found")
             /\ auctions' = auctions
        ELSE IF ~upstream
        THEN /\ resp' = Response("create", 500, "Internal server error")
             /\ auctions' = auctions
        ELSE /\ auctions' = Append(auctions,
                  [seller_id |-> user.id, status |-> "pending", on_chain_id |-> NULL,
                   bid_count |-> 0, ends_at |-> now + Duration])
             /\ resp' = Response("create", 200, "")
  /\ UNCHANGED <<now, bids, fulfillments, hook, bidReq, del, limiter, pool, health, retry,
                 built>>

CreateAuction(session, upstream) == CreateAuctionWithin(session, upstream, MaxAuctions)

(***************************************************************************)
(* PATCH /api/auctions/[id]                                                *)
(***************************************************************************)
\* request bodies: any columns of the row
Updates ==
       {[status |-> s] : s \in Statuses}
  \cup {[bid_count |-> n] : n \in 0..MaxBidCount}
  \cup {[title |-> "t"]}

\* update(updates): the named columns are overwritten
ApplyUpdates(row, updates) ==
  [f \in DOMAIN row |-> IF f \in DOMAIN updates THEN updates[f] ELSE row[f]]

\* session, ownership and status checks on the row read, then
\* update(updates).eq('on_chain_id', auctionId).select().single()
PATCH(session, auctionId, updates) ==
  /\ LET auction == Single(auctions, LAMBDA r : r.on_chain_id = auctionId)
     IN IF session = NoSession
        THEN /\ resp' = Response("patch", 401, "Unauthorized")
             /\ auctions' = auctions
        ELSE IF auction = NoRow
        THEN /\ resp' = Response("patch", 404, "Auction not found")
             /\ auctions' = auctions
        ELSE IF PrivyOfUser(auction.seller_id) # session
        THEN /\ resp' = Response("patch", 403, "Forbidden")
             /\ auctions' = auctions
        ELSE IF auction.status # "pending" /\ auction.status # "active"
        THEN /\ resp' = Response("patch", 400, "Auction cannot be modified")
             /\ auctions' = auctions
        ELSE /\ auctions' = UpdateWhere(auctions,
                              LAMBDA r : r.on_chain_id = auctionId,
                              LAMBDA r : ApplyUpdates(r, updates))
             /\ resp' = Response("patch", 200, "")
  /\ UNCHANGED <<now, bids, fulfillments, hook, bidReq, del, limiter, pool, health, retry,
                 built>>

(***************************************************************************)
(* DELETE /api/auctions/[id]                                               *)
(***************************************************************************)
IdleDelete == [pc |-> "idle", auctionId |-> NULL]

\* bids were placed, as far as the cancel request is concerned: never
hasBids_never(auction) == FALSE

\* if (auction.bid_count > 0)
hasBids(auction) == auction.bid_count > 0

\* session, ownership and bid_count checks on the row read.  The outcome is
\* the response of a rejection, or the request waiting at its update.
DeleteChecked(session, auctionId) ==
  LET auction == Single(auctions, LAMBDA r : r.on_chain_id = auctionId)
      reject(status, error) == [slot |-> IdleDelete,
                                resp |-> Response("delete", status, error)]
  IN IF session = NoSession THEN reject(401, "Unauthorized")
     ELSE IF auction = NoRow THEN reject(404, "Auction not found")
     ELSE IF PrivyOfUser(auction.seller_id) # session THEN reject(403, "Forbidden")
     ELSE IF hasBids(auction) THEN reject(400, "Cannot cancel auction with bids")
     ELSE [slot |-> [pc |-> "write", auctionId |-> auctionId], resp |-> resp]

DeleteRead(session, auctionId) ==
  /\ del.pc = "idle"
  /\ LET out == DeleteChecked(session, auctionId)
     IN /\ del' = out.slot
        /\ resp' = out.resp
  /\ UNCHANGED <<now, auctions, bids, fulfillments, hook, bidReq, limiter, pool, health, retry,
                 built>>

\* update({ status: 'cancelled' }).eq('on_chain_id', auctionId)
DeleteWrite ==
  /\ del.pc = "write"
  /\ auctions' = UpdateWhere(auctions,
                   LAMBDA r : r.on_chain_id = del.auctionId,
                   LAMBDA r : [r EXCEPT !.status = "cancelled"])
  /\ resp' = Response("delete", 200, "")
  /\ del' = IdleDelete
  /\ UNCHANGED <<now, bids, fulfillments, hook, bidReq, limiter, pool, health, retry, built>>


(***************************************************************************)
(* POST /api/auctions/[id]/bids                                            *)
(***************************************************************************)
\* what noir.verifyFinalProof does with the proof of the request
ProofOutcomes == {"true", "false", "throw"}

\* an exception of the verifier is taken for an accepted proof
verifyProof_failOpen(outcome) == outcome # "false"

\* try { return await noir.verifyFinalProof(...) } catch { return false }
verifyProof(outcome) == IF outcome = "throw" THEN FALSE ELSE outcome = "true"

\* addPriorityFee: const priorityFees = { low, medium, high } in microLamports
priorityFees == [low |-> 10000, medium |-> 50000, high |-> 200000]
PriorityLevels == DOMAIN priorityFees

\* ComputeBudgetProgram.setComputeUnitPrice({ microLamports })
computeBudgetIx(priorityLevel) ==
  [program |-> "ComputeBudget", name |-> "setComputeUnitPrice",
   value |-> priorityFees[priorityLevel]]

\* ComputeBudgetProgram.setComputeUnitLimit({ units: 400000 })
computeLimitIx ==
  [program |-> "ComputeBudget", name |-> "setComputeUnitLimit", value |-> 400000]

\* the instruction of the auction program with its discriminator
ProgramIx(name, discriminator) ==
  [program |-> "PrivateAuction", name |-> name, value |-> discriminator]

\* INSTRUCTIONS.SUBMIT_BID, INSTRUCTIONS.REVEAL_BID
SubmitBidIx == ProgramIx("SUBMIT_BID", 1)
RevealBidIx == ProgramIx("REVEAL_BID", 2)

\* the pair goes behind the instructions of the transaction
addPriorityFee_pushed(transaction, priorityLevel) ==
  transaction \o <<computeBudgetIx(priorityLevel), computeLimitIx>>

\* transaction.instructions.unshift(computeBudgetIx, computeLimitIx)
addPriorityFee(transaction, priorityLevel) ==
  <<computeBudgetIx(priorityLevel), computeLimitIx>> \o transaction

\* the instructions of the serialized transaction; the build throws when the
\* blockhash cannot be fetched
buildSubmitBidTransaction(rpcOk) ==
  IF rpcOk THEN addPriorityFee(<<SubmitBidIx>>, "medium") ELSE <<>>

\* no constraint on the bids table
BidInsertAllowed_none(rows, row) == TRUE

\* the uniqueness constraint of the bids table: one unrevealed bid per
\* (auction_id, bidder_id)
BidInsertAllowed(rows, row) ==
  \A i \in DOMAIN rows :
    ~ /\ rows[i].auction_id = row.auction_id
      /\ rows[i].bidder_id = row.bidder_id
      /\ ~rows[i].revealed

\* the existing-bid check is skipped
existingBidOf_skipped(rows, auctionId, bidderId) == NoRow

\* select('id').eq('auction_id', ...).eq('bidder_id', ...).single()
existingBidOf(rows, auctionId, bidderId) ==
  Single(rows, LAMBDA b : b.auction_id = auctionId /\ b.bidder_id = bidderId)

IdleBid ==
  [pc |-> "idle", auction_id |-> NULL, bidder_id |-> NULL,
   commitment_hash |-> <<>>, proof |-> NULL, tx |-> <<>>]

BidResponse(status, error) == Response("bid", status, error)

RateLimitExceeded == "Rate limit exceeded. Please wait before submitting another bid."

\* a denied request is let through
checkRateLimit_warnOnly(success) == "ok"

\* if (!success) throw new Error('Rate limit exceeded')
checkRateLimit(success) == IF ~success THEN "throw" ELSE "ok"

\* bids are taken whatever the status of the auction
acceptingBids_any(auction) == TRUE

\* if (auction.status !== 'active'): not accepting bids
acceptingBids(auction) == auction.status = "active"

\* everything up to the serialized transaction: session, rate limit, user,
\* auction, existing bid, proof, transaction build.  The outcome is the
\* response of a rejection, or the request waiting at its insert.
BidChecked(session, auctionId, commitmentHash, allowed, proof, rpcOk) ==
  LET user == UserOfSession(session)
      auction == Single(auctions, LAMBDA a : a.on_chain_id = auctionId)
      existingBid == IF user = NoRow THEN NoRow
                     ELSE existingBidOf(bids, auctionId, user.id)
      tx == buildSubmitBidTransaction(rpcOk)
      reject(status, error) == [slot |-> IdleBid, resp |-> BidResponse(status, error)]
  IN IF session = NoSession THEN reject(401, "Unauthorized")
     ELSE IF checkRateLimit(allowed) = "throw" THEN reject(429, RateLimitExceeded)
     ELSE IF user = NoRow THEN reject(404, "User not found")
     ELSE IF auction = NoRow THEN reject(404, "Auction not found")
     ELSE IF ~acceptingBids(auction)
          THEN reject(400, "Auction is not accepting bids")
     ELSE IF auction.ends_at < now THEN reject(400, "Auction has ended")
     ELSE IF existingBid # NoRow
          THEN reject(400, "You already have a bid on this auction")
     ELSE IF ~verifyProof(proof) THEN reject(400, "Invalid proof")
     ELSE IF tx = <<>> THEN reject(500, "Internal server error")
     ELSE [slot |-> [pc |-> "insert", auction_id |-> auctionId,
                     bidder_id |-> user.id, commitment_hash |-> commitmentHash,
                     proof |-> proof, tx |-> tx],
           resp |-> resp]

BidCheck(r, session, auctionId, commitmentHash, allowed, proof, rpcOk) ==
  /\ bidReq[r].pc = "idle"
  /\ LET out == BidChecked(session, auctionId, commitmentHash, allowed, proof, rpcOk)
     IN /\ bidReq' = [bidReq EXCEPT ![r] = out.slot]
        /\ resp' = out.resp
  /\ UNCHANGED <<now, auctions, bids, fulfillments, hook, del, limiter, pool, health, retry,
                 built>>

\* the response does not look at the error of the insert
BidInserted_errorIgnored(slot) ==
  LET row == [auction_id |-> slot.auction_id, bidder_id |-> slot.bidder_id,
              commitment_hash |-> slot.commitment_hash,
              revealed |-> FALSE, amount |-> 0, on_chain_id |-> NULL]
      success == [BidResponse(200, "") EXCEPT !.bidId = Len(bids) + 1, !.tx = slot.tx]
  IN IF BidInsertAllowed(bids, row)
     THEN [bids |-> Append(bids, row), resp |-> success]
     ELSE [bids |-> bids, resp |-> success]

\* insert(...).select().single(), then the response
BidInserted(slot) ==
  LET row == [auction_id |-> slot.auction_id, bidder_id |-> slot.bidder_id,
              commitment_hash |-> slot.commitment_hash,
              revealed |-> FALSE, amount |-> 0, on_chain_id |-> NULL]
  IN IF BidInsertAllowed(bids, row)
     THEN [bids |-> Append(bids, row),
           resp |-> [BidResponse(200, "") EXCEPT
                       !.bidId = Len(bids) + 1, !.tx = slot.tx]]
     ELSE [bids |-> bids, resp |-> BidResponse(500, "Failed to submit bid")]

BidInsert(r) ==
  /\ bidReq[r].pc = "insert"
  /\ LET out == BidInserted(bidReq[r])
     IN /\ Len(out.bids) <= MaxBids
        /\ bids' = out.bids
        /\ resp' = out.resp
  /\ bidReq' = [bidReq EXCEPT ![r] = IdleBid]
  /\ UNCHANGED <<now, auctions, fulfillments, hook, del, limiter, pool, health, retry, built>>

(***************************************************************************)
(* The rate limiters (sliding windows in the shared counter store).        *)
(***************************************************************************)
rateLimiters ==
  [ bidSubmission     |-> [tokens |-> 10,  window |-> 60],
    auctionCreation   |-> [tokens |-> 5,   window |-> 3600],
    proofVerification |-> [tokens |-> 100, window |-> 60],
    apiRequest        |-> [tokens |-> 100, window |-> 60] ]

\* type: keyof typeof rateLimiters = 'apiRequest'
DefaultLimiterType == "apiRequest"

\* `bid:${session.user.id}:${auctionId}`
rateLimitKey(session, auctionId) == <<"bid", session, auctionId>>
RateLimitKeys ==
  {rateLimitKey(s, a) : s \in Sessions \ {NoSession}, a \in OnChainAuctions}

\* the counters of an identifier: the fixed window they belong to, the
\* requests admitted in it and those admitted in the window before it
NoEntry == [window |-> 0, current |-> 0, previous |-> 0]

\* limiter.limit(identifier) at time t (seconds): the requests of the window
\* before count for the part of it that the sliding window still covers; a
\* request is admitted, and counted, while the sum is below the tokens
limit(entry, type, t) ==
  LET cfg == rateLimiters[type]
      w == t \div cfg.window
      cur == IF entry.window = w THEN entry.current ELSE 0
      prev == IF entry.window = w THEN entry.previous
              ELSE IF entry.window = w - 1 THEN entry.current ELSE 0
      weighted == (prev * (cfg.window - (t % cfg.window))) \div cfg.window
      success == weighted + cur < cfg.tokens
  IN [success |-> success,
      entry |-> [window |-> w, previous |-> prev,
                 current |-> IF success THEN cur + 1 ELSE cur]]

\* the bid route with the limiter it calls: checkRateLimit(rateLimitKey),
\* which takes the default type
BidCheckLimited(r, session, auctionId, commitmentHash, proof, rpcOk) ==
  /\ bidReq[r].pc = "idle"
  /\ LET key == rateLimitKey(session, auctionId)
         lim == limit(limiter[key], DefaultLimiterType, now)
         allowed == IF session = NoSession THEN TRUE ELSE lim.success
         out == BidChecked(session, auctionId, commitmentHash, allowed, proof, rpcOk)
     IN /\ bidReq' = [bidReq EXCEPT ![r] = out.slot]
        /\ resp' = out.resp
        /\ limiter' = IF session = NoSession THEN limiter
                      ELSE [limiter EXCEPT ![key] = lim.entry]
  /\ UNCHANGED <<now, auctions, bids, fulfillments, hook, del, pool, health, retry, built>>

\* half a window of the bid limiters goes by
Elapse ==
  /\ now + rateLimiters.apiRequest.window \div 2 <= MaxClock
  /\ now' = now + rateLimiters.apiRequest.window \div 2
  /\ UNCHANGED <<auctions, bids, fulfillments, hook, bidReq, del, resp,
                 limiter, pool, health, retry, built>>

(***************************************************************************)
(* The connection pool.                                                    *)
(***************************************************************************)
Endpoints == {"primary", "fallback"}

\* private readonly maxFailures = 3
maxFailures == 3

\* constructor: currentConnection = primaryConnection, consecutiveFailures = 0
NewPool == [current |-> "primary", consecutiveFailures |-> 0, pc |-> "idle"]

\* the endpoint starts or stops answering
SetHealth(e, h) ==
  /\ health[e] # h
  /\ health' = [health EXCEPT ![e] = h]
  /\ UNCHANGED <<now, auctions, bids, fulfillments, hook, bidReq, del, resp,
                 limiter, pool, retry, built>>

\* checkHealth(): getSlot() on the current connection answered (ok) or threw
checkHealth(p, ok) ==
  IF ok THEN [pool |-> [p EXCEPT !.consecutiveFailures = 0], healthy |-> TRUE]
  ELSE [pool |-> [p EXCEPT !.consecutiveFailures = @ + 1], healthy |-> FALSE]

switchToFallback(p) == [p EXCEPT !.current = "fallback", !.consecutiveFailures = 0]

\* tryPrimary(): getSlot() on the primary connection answered (ok) or threw
tryPrimary(p, ok) == IF ok THEN [p EXCEPT !.current = "primary"] ELSE p

\* the callback of the health check interval, up to its await of tryPrimary
HealthCheck ==
  /\ pool.pc = "idle"
  /\ LET probe == checkHealth(pool, health[pool.current])
     IN /\ probe.pool.consecutiveFailures <= MaxFailureCount
        /\ pool' = IF ~probe.healthy /\ pool.current = "primary"
                   THEN switchToFallback(probe.pool)
                   ELSE IF probe.healthy /\ pool.current = "fallback"
                   THEN [probe.pool EXCEPT !.pc = "tryPrimary"]
                   ELSE probe.pool
  /\ UNCHANGED <<now, auctions, bids, fulfillments, hook, bidReq, del, resp,
                 limiter, health, retry, built>>

\* the rest of the callback: await this.tryPrimary()
TryPrimary ==
  /\ pool.pc = "tryPrimary"
  /\ pool' = [tryPrimary(pool, health.primary) EXCEPT !.pc = "idle"]
  /\ UNCHANGED <<now, auctions, bids, fulfillments, hook, bidReq, del, resp,
                 limiter, health, retry, built>>

\* executeWithRetry(operation, maxRetries = 3): the default of maxRetries
maxRetries == 3

\* let lastError: Error | null = null
NoError == [null |-> TRUE, raisedBy |-> 0]
\* the error that the operation throws in the attempt with this index
ErrorOf(attempt) == [null |-> FALSE, raisedBy |-> attempt]

\* no call in flight.  conn is the connection handed to the operation of
\* the running attempt, on the connections of the attempts so far
IdleRetry ==
  [pc |-> "idle", attempt |-> 0, delay |-> 0, result |-> "none",
   maxRetries |-> maxRetries, conn |-> NULL, lastError |-> NoError, on |-> <<>>]

\* const delay = Math.pow(2, attempt) * 1000
backoffDelay(attempt) == (2 ^ attempt) * 1000

\* a caller enters executeWithRetry(operation, n): the loop starts its first
\* attempt on the current connection, or, with no attempt to make, falls
\* through to throw lastError
RetryStartWith(n) ==
  /\ retry.pc = "idle"
  /\ retry' = IF 0 < n
              THEN [IdleRetry EXCEPT !.pc = "call", !.maxRetries = n,
                                     !.conn = pool.current,
                                     !.on = <<pool.current>>]
              ELSE [IdleRetry EXCEPT !.result = "throw", !.maxRetries = n]
  /\ UNCHANGED <<now, auctions, bids, fulfillments, hook, bidReq, del, resp,
                 limiter, pool, health, built>>

RetryStart == RetryStartWith(maxRetries)

\* the switch to the fallback comes one failed attempt later
afterFailure_late(p, attempt) ==
  IF attempt = 2 /\ p.current = "primary" THEN switchToFallback(p) ELSE p

\* if (attempt === 1 && this.currentConnection === this.primaryConnection)
afterFailure(p, attempt) ==
  IF attempt = 1 /\ p.current = "primary" THEN switchToFallback(p) ELSE p

\* the loop runs one attempt more than its bound
moreAttempts_oneMore(attempt, n) == attempt < n

\* if (attempt < maxRetries - 1), which is the loop's attempt < maxRetries
\* after its attempt++
moreAttempts(attempt, n) == attempt < n - 1

\* await operation(connection): it returns, or it throws and the attempt
\* goes to its backoff; the last attempt has none and the loop ends in
\* throw lastError
RetryCall ==
  /\ retry.pc = "call"
  /\ IF health[retry.conn]
     THEN /\ retry' = [retry EXCEPT !.pc = "idle", !.result = "ok"]
          /\ pool' = pool
     ELSE IF moreAttempts(retry.attempt, retry.maxRetries)
     THEN /\ retry' = [retry EXCEPT !.pc = "backoff",
                                    !.lastError = ErrorOf(retry.attempt),
                                    !.delay = backoffDelay(retry.attempt)]
          /\ pool' = pool
     ELSE /\ retry' = [retry EXCEPT !.pc = "idle", !.result = "throw",
                                    !.lastError = ErrorOf(retry.attempt)]
          /\ pool' = afterFailure(pool, retry.attempt)
  /\ UNCHANGED <<now, auctions, bids, fulfillments, hook, bidReq, del, resp,
                 limiter, health, built>>

\* the backoff timer fires: the switch to the fallback, then the next attempt
\* starts on the connection that is current then
RetryWake ==
  /\ retry.pc = "backoff"
  /\ pool' = afterFailure(pool, retry.attempt)
  /\ retry' = [retry EXCEPT !.pc = "call", !.attempt = @ + 1,
                            !.conn = pool'.current,
                            !.on = Append(@, pool'.current)]
  /\ UNCHANGED <<now, auctions, bids, fulfillments, hook, bidReq, del, resp,
                 limiter, health, built>>

(***************************************************************************)
(* The instruction data of the transaction builders.                       *)
(***************************************************************************)
\* const data = Buffer.alloc(256)
BufferSize == 256
alloc(size) == [i \in 1..size |-> 0]

\* source.copy(target, offset): the bytes of the source that fit the target
copy(source, target, offset) ==
  [i \in 1..Len(target) |->
     IF offset < i /\ i <= offset + Len(source) THEN source[i - offset]
     ELSE target[i]]

\* the little-endian bytes of a value
RECURSIVE LittleEndian(_, _)
LittleEndian(value, width) ==
  IF width = 0 THEN <<>>
  ELSE <<value % 256>> \o LittleEndian(value \div 256, width - 1)

\* data.writeUInt32LE(value, offset), data.writeBigUInt64LE(value, offset)
writeUInt32LE(target, value, offset) == copy(LittleEndian(value, 4), target, offset)
writeBigUInt64LE(target, value, offset) == copy(LittleEndian(value, 8), target, offset)

\* data.subarray(0, end): the end is clamped to the length of the buffer
subarray(data, end) == SubSeq(data, 1, IF end < Len(data) THEN end ELSE Len(data))

\* the offset of the proof in the data of the two instructions
SubmitBidHeader == 1 + 32 + 32 + 4
RevealBidHeader == 1 + 8 + 32 + 4

\* buildSubmitBidTransaction: the data of the SUBMIT_BID instruction
submitBidData(commitmentHash, proofHash, proof) ==
  LET d1 == copy(<<SubmitBidIx.value>>, alloc(BufferSize), 0)
      d2 == copy(commitmentHash, d1, 1)
      d3 == copy(proofHash, d2, 33)
      d4 == writeUInt32LE(d3, Len(proof), 65)
      d5 == copy(proof, d4, 69)
  IN subarray(d5, 69 + Len(proof))

\* buildRevealBidTransaction: the data of the REVEAL_BID instruction
revealBidData(amount, salt, proof) ==
  LET d1 == copy(<<RevealBidIx.value>>, alloc(BufferSize), 0)
      d2 == writeBigUInt64LE(d1, amount, 1)
      d3 == copy(salt, d2, 9)
      d4 == writeUInt32LE(d3, Len(proof), 41)
      d5 == copy(proof, d4, 45)
  IN subarray(d5, 45 + Len(proof))

\* byte strings: a hash or salt of 32 bytes, a proof of n bytes
Bytes32(b) == [i \in 1..32 |-> b]
ProofBytes(n) == [i \in 1..n |-> 1 + (i % 251)]
ProofLengths == MinProofLen..MaxProofLen

\* no build has run
IdleBuild == [op |-> "none", proofLen |-> 0, amount |-> 0, thrown |-> FALSE, data |-> <<>>]

\* buildSubmitBidTransaction(params): it throws when no blockhash is to be
\* had, and returns the transaction with the instruction otherwise
BuildSubmitBid(n, rpcOk) ==
  /\ built.op = "none"
  /\ built' = IF ~rpcOk
              THEN [op |-> "submit", proofLen |-> n, amount |-> 0,
                    thrown |-> TRUE, data |-> <<>>]
              ELSE [op |-> "submit", proofLen |-> n, amount |-> 0,
                    thrown |-> FALSE,
                    data |-> submitBidData(Bytes32(170), Bytes32(187), ProofBytes(n))]
  /\ UNCHANGED <<now, auctions, bids, fulfillments, hook, bidReq, del, resp,
                 limiter, pool, health, retry>>

\* buildRevealBidTransaction(params): writeBigUInt64LE throws a RangeError on
\* an amount that is not an unsigned 64-bit value
BuildRevealBid(amount, n, rpcOk) ==
  /\ built.op = "none"
  /\ built' = IF ~rpcOk \/ amount < 0
              THEN [op |-> "reveal", proofLen |-> n, amount |-> amount,
                    thrown |-> TRUE, data |-> <<>>]
              ELSE [op |-> "reveal", proofLen |-> n, amount |-> amount,
                    thrown |-> FALSE,
                    data |-> revealBidData(amount, Bytes32(204), ProofBytes(n))]
  /\ UNCHANGED <<now, auctions, bids, fulfillments, hook, bidReq, del, resp,
                 limiter, pool, health, retry>>

\* the caller has taken the transaction, or the exception
BuildDone ==
  /\ built.op # "none"
  /\ built' = IdleBuild
  /\ UNCHANGED <<now, auctions, bids, fulfillments, hook, bidReq, del, resp,
                 limiter, pool, health, retry>>

(***************************************************************************)
(* Time.                                                                   *)
(***************************************************************************)
\* the clock moves past the end of every auction created so far
Tick ==
  /\ now < MaxTime
  /\ now' = now + Duration + 1
  /\ UNCHANGED <<auctions, bids, fulfillments, hook, bidReq, del, resp, limiter, pool, health, retry,
                 built>>

(***************************************************************************)
(* The system.                                                             *)
(***************************************************************************)
Init ==
  /\ now = 0
  /\ auctions = <<>>
  /\ bids = <<>>
  /\ fulfillments = <<>>
  /\ hook = IdleHook
  /\ bidReq = [r \in 1..MaxInflight |-> IdleBid]
  /\ del = IdleDelete
  /\ resp = Response("none", 0, "")
  /\ limiter = [k \in RateLimitKeys |-> NoEntry]
  /\ pool = NewPool
  /\ health = [primary |-> TRUE, fallback |-> TRUE]
  /\ retry = IdleRetry
  /\ built = IdleBuild

(***************************************************************************)
(* Spec: the reconciliation of auction events and the auction routes, for  *)
(* one seller ("u1", session "p1") and one ledger auction.                 *)
(***************************************************************************)
AuctionEvents ==
  {e \in Events :
     \/ e.type = "AUCTION_CREATED" /\ e.auctionPubkey = "A1" /\ e.seller = "u1"
     \/ e.type = "AUCTION_SETTLED" /\ e.auctionId = "A1" /\ e.winner \in {"w2", "w3"}
     \/ /\ e.type = "BID_SUBMITTED" /\ e.auctionId = "A1" /\ e.bidId = "B1"
        /\ e.commitmentHash = generateCommitmentHash(5, "s1", "w1")
     \/ e.type = "SOMETHING_ELSE"}

Next ==
  \/ \E s \in {"p1", NoSession}, up \in BOOLEAN : CreateAuction(s, up)
  \/ \E b \in RawBodies, h \in SigHeaders, n \in 0..MaxBatch : WebhookPOST(b, h, n)
  \/ \E e \in AuctionEvents : WebhookEvent(e)
  \/ WebhookDone
  \/ \E s \in {"p1", "p2"}, u \in Updates : PATCH(s, "A1", u)
  \/ \E s \in {"p1", "p2"} : DeleteRead(s, "A1")
  \/ DeleteWrite

Spec == Init /\ [][Next]_vars

(***************************************************************************)
(* SpecBids: bid submissions, two of them in flight at a time, and the     *)
(* reconciliation of bid events, on an auction that is already active.     *)
(***************************************************************************)
InitBids ==
  /\ now = 0
  /\ auctions = <<[seller_id |-> "u1", status |-> "active", on_chain_id |-> "A1",
                   bid_count |-> 0, ends_at |-> Duration]>>
  /\ bids = <<>>
  /\ fulfillments = <<>>
  /\ hook = IdleHook
  /\ bidReq = [r \in 1..MaxInflight |-> IdleBid]
  /\ del = IdleDelete
  /\ resp = Response("none", 0, "")
  /\ limiter = [k \in RateLimitKeys |-> NoEntry]
  /\ pool = NewPool
  /\ health = [primary |-> TRUE, fallback |-> TRUE]
  /\ retry = IdleRetry
  /\ built = IdleBuild

\* the commitment of the session's user to the amount 5
OwnCommitment(s) ==
  generateCommitmentHash(5, "s1",
    IF UserOfSession(s) = NoRow THEN "w3" ELSE UserOfSession(s).wallet)

BidEvents ==
  {e \in Events :
     \/ e.type = "BID_SUBMITTED" /\ e.auctionId = "A1"
     \/ e.type = "BID_REVEALED"}

NextBids ==
  \/ Tick
  \/ \E n \in 1..MaxBatch : WebhookPOST("body1", HmacHex(HELIUS_WEBHOOK_SECRET, "body1"), n)
  \/ \E e \in BidEvents : WebhookEvent(e)
  \/ WebhookDone
  \/ \E r \in 1..MaxInflight, s \in Sessions,
        al \in BOOLEAN, p \in ProofOutcomes, ok \in BOOLEAN :
        BidCheck(r, s, "A1", OwnCommitment(s), al, p, ok)
  \/ \E r \in 1..MaxInflight : BidInsert(r)

SpecBids == InitBids /\ [][NextBids]_vars


(***************************************************************************)
(* Properties of the auction lifecycle.                                    *)
(***************************************************************************)
StatusRank(s) ==
  CASE s = "pending" -> 0
    [] s = "active" -> 1
    [] s = "revealing" -> 2
    [] s = "settled" -> 3
    [] s = "cancelled" -> 3

\* rows are never deleted, so row i of auctions is row i of auctions'
StatusChanged(i) == auctions'[i].status # auctions[i].status

\* C1: the status of an auction only moves forward along
\* pending -> active -> revealing -> {settled | cancelled}, and a settled or
\* cancelled auction keeps its status.
C1_StatusMonotonic ==
  [][\A i \in DOMAIN auctions :
       StatusChanged(i) =>
         StatusRank(auctions[i].status) < StatusRank(auctions'[i].status)]_vars

\* the rows of the transition table, with their guards
TableTransition(old, new) ==
  \/ old.status = "pending" /\ new.status = "active"
  \/ old.status = "active" /\ new.status = "cancelled" /\ old.bid_count = 0
  \/ old.status = "active" /\ new.status = "revealing" /\ old.ends_at < now
  \/ old.status = "revealing" /\ new.status = "settled"

\* C2: every status change is a row of the transition table, and Fulfillment
\* rows are written only together with a change from revealing to settled (an
\* AUCTION_SETTLED event for an auction that is not revealing changes nothing).
C2_OnlyTableTransitions ==
  [][/\ \A i \in DOMAIN auctions :
          StatusChanged(i) => TableTransition(auctions[i], auctions'[i])
     /\ fulfillments' # fulfillments =>
          \E i \in DOMAIN auctions :
             auctions[i].status = "revealing" /\ auctions'[i].status = "settled"]_vars

\* batches of the events of the auction lifecycle
AuctionBatches == UNION {[1..n -> AuctionEvents] : n \in 1..MaxBatch}

C5_OneFulfillmentPerAuction ==
  /\ [](\A i, j \in DOMAIN fulfillments :
          fulfillments[i].auction_id = fulfillments[j].auction_id => i = j)
  /\ [][fulfillments' # fulfillments =>
          \E e \in Events : e.type = "AUCTION_SETTLED" /\ WebhookEvent(e)]_vars

(***************************************************************************)
(* Properties of the webhook's authentication.                             *)
(***************************************************************************)
Authentic(payload, signature) ==
  signature = HmacHex(HELIUS_WEBHOOK_SECRET, payload)

\* C7: a batch whose signature header is missing or is not the HMAC of the
\* body is rejected before the loop: the loop only runs for an authentic
\* batch, and the rejected request changes no row and starts no loop.
C7_UnauthenticBatchRejected ==
  /\ [](hook.pc = "run" => Authentic(hook.body, hook.sig))
  /\ [][\A b \in RawBodies, h \in SigHeaders, n \in 0..MaxBatch :
          (WebhookPOST(b, h, n) /\ ~Authentic(b, h)) =>
             /\ hook' = hook
             /\ mirror' = mirror
             /\ resp'.op = "webhook" /\ resp'.status \in {401, 500}]_vars

\* a request with a wrong signature was answered while the mirror has a row
C7_Witness ==
  /\ resp.op = "webhook"
  /\ resp.error = "Invalid signature"
  /\ hook.pc = "idle"
  /\ Len(auctions) > 0


(***************************************************************************)
(* Properties of the bids.                                                 *)
(***************************************************************************)
\* C3: a revealed bid carries an amount whose commitment, under some salt and
\* the bidder's key, is the stored commitment hash (so a reveal with a hash
\* that does not match leaves the bid unrevealed).
C3_RevealedMatchesCommitment ==
  \A i \in DOMAIN bids :
    bids[i].revealed =>
      \E salt \in Salts :
        generateCommitmentHash(bids[i].amount, salt, WalletOfUser(bids[i].bidder_id))
          = bids[i].commitment_hash

\* the bids of an auction whose submission a BID_SUBMITTED event confirmed
ConfirmedBids(auctionId) ==
  {j \in DOMAIN bids : bids[j].auction_id = auctionId /\ bids[j].on_chain_id # NULL}

\* C6: the bid_count of an auction is the number of its confirmed bids.
C6_BidCountIsConfirmedBids ==
  \A i \in DOMAIN auctions :
    auctions[i].on_chain_id # NULL =>
      auctions[i].bid_count = Cardinality(ConfirmedBids(auctions[i].on_chain_id))

\* C8: a submission reaches the insert, and a row is inserted, only for a
\* request whose proof the verifier accepted; a transaction is returned only
\* with the success response.
C8_ProofFailsClosed ==
  /\ [](\A r \in DOMAIN bidReq : bidReq[r].pc = "insert" => bidReq[r].proof = "true")
  /\ [](resp.op = "bid" /\ (resp.tx # <<>> \/ resp.bidId # 0) => resp.status = 200)
  /\ [][Len(bids') > Len(bids) =>
          \E r \in DOMAIN bidReq :
             /\ bidReq[r].pc = "insert" /\ bidReq[r].proof = "true"
             /\ bidReq'[r].pc = "idle"
             /\ resp'.op = "bid" /\ resp'.status = 200]_vars

\* a submission was rejected for its proof
C8_Witness ==
  /\ resp.op = "bid"
  /\ resp.error = "Invalid proof"
  /\ resp.tx = <<>>

UnrevealedBids(auctionId, bidderId) ==
  {i \in DOMAIN bids : /\ bids[i].auction_id = auctionId
                       /\ bids[i].bidder_id = bidderId
                       /\ ~bids[i].revealed}

\* C9: at most one bid that is not revealed per (auction, bidder).
C9_OneUnrevealedBidPerBidder ==
  \A a \in OnChainAuctions, u \in Users : Cardinality(UnrevealedBids(a, u)) <= 1

\* two submissions of one bidder passed the existing-bid check before either
\* inserted; the first insert went through and the second was refused
C9_Witness ==
  /\ resp.op = "bid"
  /\ resp.error = "Failed to submit bid"
  /\ \E u \in Users : Cardinality(UnrevealedBids("A1", u)) = 1


(***************************************************************************)
(* The bid submission scenario.                                            *)
(***************************************************************************)
\* the one auction row of the id, active and not past its end
OpenAuction(auctionId) ==
  LET auction == Single(auctions, LAMBDA a : a.on_chain_id = auctionId)
  IN /\ auction # NoRow
     /\ auction.status = "active"
     /\ ~(auction.ends_at < now)

BidsOf(auctionId, bidderId) ==
  {i \in DOMAIN bids : bids[i].auction_id = auctionId /\ bids[i].bidder_id = bidderId}

IsAccepted(response) ==
  /\ response.op = "bid" /\ response.status = 200
  /\ response.bidId # 0 /\ response.tx # <<>>

IsRejected(response) ==
  /\ response.op = "bid" /\ response.status # 200
  /\ response.bidId = 0 /\ response.tx = <<>>

DuplicateBid == "You already have a bid on this auction"

AuctionOf(auctionId) == Single(auctions, LAMBDA r : r.on_chain_id = auctionId)

\* C11: a cancel request of the seller for an auction whose stored bid_count
\* is above 0 is rejected with the cannot-cancel error and changes no row; a
\* cancel request of the seller for an active auction whose stored bid_count
\* is 0 passes the checks, and its update sets the status of the auction to
\* cancelled.
C11_CancelOnlyWithoutBids ==
  /\ [](\A a \in OnChainAuctions :
          LET auction == AuctionOf(a)
              out == DeleteChecked(PrivyOfUser(auction.seller_id), a)
          IN auction # NoRow =>
               /\ auction.bid_count > 0 =>
                    /\ out.slot = IdleDelete
                    /\ out.resp = Response("delete", 400, "Cannot cancel auction with bids")
               /\ (auction.bid_count = 0 /\ auction.status = "active") =>
                    out.slot = [pc |-> "write", auctionId |-> a])
  /\ [][/\ (resp' # resp /\ resp'.op = "delete" /\ resp'.status # 200) =>
             auctions' = auctions
        /\ DeleteWrite =>
             /\ resp'.status = 200
             /\ \A i \in DOMAIN auctions :
                  IF auctions[i].on_chain_id = del.auctionId
                  THEN auctions'[i].status = "cancelled"
                  ELSE auctions'[i] = auctions[i]]_vars

\* the seller's cancel request was refused because of the bids, and the
\* auction is still active
C11_Witness ==
  /\ resp.op = "delete"
  /\ resp.error = "Cannot cancel auction with bids"
  /\ AuctionOf("A1") # NoRow
  /\ AuctionOf("A1").status = "active"
  /\ AuctionOf("A1").bid_count > 0

\* the seller's cancel request on the active auction without bids went through
C11_WitnessCancelled ==
  /\ resp.op = "delete" /\ resp.status = 200
  /\ AuctionOf("A1") # NoRow
  /\ AuctionOf("A1").status = "cancelled"
  /\ AuctionOf("A1").bid_count = 0

(***************************************************************************)
(* The bid count.                                                          *)
(***************************************************************************)
\* C12: the stored bid_count of an auction changes only in the step that
\* processes a BID_SUBMITTED event; no request of a client changes it.
C12_BidCountOnlyFromEvents ==
  [][\A i \in DOMAIN auctions :
       auctions'[i].bid_count # auctions[i].bid_count =>
         \E e \in Events : e.type = "BID_SUBMITTED" /\ WebhookEvent(e)]_vars

(***************************************************************************)
(* SpecRate: the bid submissions of one user on one auction against the    *)
(* rate limiter, with the clock in seconds.                                *)
(***************************************************************************)
\* duration: z.number().min(3600)
MinDuration == 3600

InitRate ==
  /\ now = 0
  /\ auctions = <<[seller_id |-> "u2", status |-> "active", on_chain_id |-> "A1",
                   bid_count |-> 0, ends_at |-> MinDuration]>>
  /\ bids = <<>>
  /\ fulfillments = <<>>
  /\ hook = IdleHook
  /\ bidReq = [r \in 1..MaxInflight |-> IdleBid]
  /\ del = IdleDelete
  /\ resp = Response("none", 0, "")
  /\ limiter = [k \in RateLimitKeys |-> NoEntry]
  /\ pool = NewPool
  /\ health = [primary |-> TRUE, fallback |-> TRUE]
  /\ retry = IdleRetry
  /\ built = IdleBuild

NextRate ==
  \/ Elapse
  \/ \E p \in {"true", "false"} :
       BidCheckLimited(1, "p1", "A1", OwnCommitment("p1"), p, TRUE)
  \/ BidInsert(1)

SpecRate == InitRate /\ [][NextRate]_vars

\* C13: of the bid submissions of one (user, auction), at most 10 are
\* admitted within one window of 60 seconds (the 11th is rejected), and a
\* submission is admitted again once the window has rolled.
C13_TenBidsPerMinute ==
  /\ [](\A k \in RateLimitKeys :
          limiter[k].current <= rateLimiters.bidSubmission.tokens)
  /\ [][\A k \in RateLimitKeys :
          (/\ limiter'[k] # limiter[k] \/ (resp' # resp /\ resp'.status = 429)
           /\ limiter[k].window < now \div rateLimiters.bidSubmission.window - 1)
            => limiter'[k].current = 1]_vars

(***************************************************************************)
(* The denied rate-limit check.                                            *)
(***************************************************************************)
\* C20: a submission that the rate limiter denies is answered 429 whatever
\* its auction, proof and transaction build would have given, never reaches
\* the insert, and the step that answers 429 changes no table and leaves no
\* request in flight behind.
C20_DeniedIsRejected ==
  /\ [](\A s \in Sessions \ {NoSession}, p \in ProofOutcomes, ok \in BOOLEAN :
          LET out == BidChecked(s, "A1", OwnCommitment(s), FALSE, p, ok)
          IN /\ out.slot = IdleBid
             /\ out.resp = BidResponse(429, RateLimitExceeded))
  /\ [][(resp' # resp /\ resp'.op = "bid" /\ resp'.status = 429) =>
          mirror' = mirror /\ bidReq' = bidReq]_vars

\* a submission with a proof that verifies, on the open auction, was denied
C20_Witness ==
  /\ resp.op = "bid" /\ resp.status = 429
  /\ OpenAuction("A1")
  /\ bids = <<>>

(***************************************************************************)
(* SpecPool: the connection pool, its health check interval and one        *)
(* caller of executeWithRetry, with endpoints that go down and come back.  *)
(***************************************************************************)
InitPool ==
  /\ now = 0
  /\ auctions = <<>>
  /\ bids = <<>>
  /\ fulfillments = <<>>
  /\ hook = IdleHook
  /\ bidReq = [r \in 1..MaxInflight |-> IdleBid]
  /\ del = IdleDelete
  /\ resp = Response("none", 0, "")
  /\ limiter = [k \in RateLimitKeys |-> NoEntry]
  /\ pool = NewPool
  /\ health \in [Endpoints -> BOOLEAN]
  /\ retry = IdleRetry
  /\ built = IdleBuild

NextPool ==
  \/ \E e \in Endpoints, h \in BOOLEAN : SetHealth(e, h)
  \/ HealthCheck
  \/ TryPrimary
  \/ RetryStart
  \/ RetryCall
  \/ RetryWake

SpecPool == InitPool /\ [][NextPool]_vars

\* the interval timer keeps firing and awaited calls return
SpecPoolFair == SpecPool /\ WF_vars(HealthCheck) /\ WF_vars(TryPrimary)

\* C14: a health check moves the pool from primary to fallback only when it
\* is the third failure in a row, and that third failure does move it, with
\* the failure counter back at 0.
C14_FallbackAfterThreeFailures ==
  [][(HealthCheck /\ pool.current = "primary") =>
       IF ~health.primary /\ pool.consecutiveFailures + 1 >= maxFailures
       THEN pool'.current = "fallback" /\ pool'.consecutiveFailures = 0
       ELSE pool'.current = "primary"]_vars

\* C15: on fallback, once the primary answers and keeps answering, the pool
\* is eventually on primary again, whatever the fallback does.
C15_BackToPrimary ==
  [](pool.current = "fallback" /\ [](health.primary) =>
       <>(pool.current = "primary"))

(***************************************************************************)
(* Reveal before submission, order of delivery, set-once amounts.          *)
(***************************************************************************)
\* C16: for a bid row that the ledger has not confirmed yet, a BID_REVEALED
\* event of the committed amount that is processed before the BID_SUBMITTED
\* event of that bid is not lost: once both are processed, the bid is
\* revealed.  (Nothing runs after the handlers, so the mirror after the two
\* events is the mirror for good.)
C16_RevealBeforeSubmitNotLost ==
  \A i \in DOMAIN bids, b \in OnChainBids :
    (/\ bids[i].on_chain_id = NULL
     /\ ~bids[i].revealed
     /\ \A j \in DOMAIN bids : bids[j].on_chain_id # b)
      => LET reveal == [type |-> "BID_REVEALED", bidId |-> b,
                        amount |-> bids[i].commitment_hash[1]]
             submit == [type |-> "BID_SUBMITTED", auctionId |-> bids[i].auction_id,
                        bidId |-> b, commitmentHash |-> bids[i].commitment_hash]
         IN ProcessBatch(Mirror, <<reveal, submit>>).bids[i].revealed

\* C17: two different events about the auction leave the same mirror in
\* either order of delivery.
C17_OrderTolerant ==
  \A e1, e2 \in AuctionEvents :
    ProcessBatch(Mirror, <<e1, e2>>) = ProcessBatch(Mirror, <<e2, e1>>)

\* C19: a bid that is revealed stays revealed and keeps its amount.
C19_RevealedAmountSetOnce ==
  [][\A i \in DOMAIN bids :
       bids[i].revealed =>
         bids'[i].revealed /\ bids'[i].amount = bids[i].amount]_vars

(***************************************************************************)
(* SpecLife: an active auction while time passes, with the requests of     *)
(* its seller, a bidder and the settlement event.                          *)
(***************************************************************************)
LifeEvents ==
  {e \in Events : e.type = "AUCTION_SETTLED" /\ e.auctionId = "A1" /\ e.winner = "w2"}

NextLife ==
  \/ Tick
  \/ \E u \in Updates : PATCH("p1", "A1", u)
  \/ DeleteRead("p1", "A1")
  \/ DeleteWrite
  \/ BidCheck(1, "p2", "A1", OwnCommitment("p2"), TRUE, "true", TRUE)
  \/ BidInsert(1)
  \/ WebhookPOST("body1", HmacHex(HELIUS_WEBHOOK_SECRET, "body1"), 1)
  \/ \E e \in LifeEvents : WebhookEvent(e)
  \/ WebhookDone

SpecLife == InitBids /\ [][NextLife]_vars

\* time passes, and a request or a batch that has started runs to its end
SpecLifeFair ==
  /\ SpecLife
  /\ WF_vars(Tick) /\ WF_vars(DeleteWrite) /\ WF_vars(BidInsert(1))
  /\ WF_vars(\E e \in LifeEvents : WebhookEvent(e)) /\ WF_vars(WebhookDone)

\* C18: an active auction whose ends_at has passed eventually is revealing,
\* and no request of a client (PATCH, DELETE, bid submission) makes an
\* auction revealing.
C18_RevealingByTimeOnly ==
  /\ \A i \in 1..MaxAuctions :
       [](/\ i \in DOMAIN auctions
          /\ auctions[i].status = "active"
          /\ auctions[i].ends_at < now
          => <>(i \in DOMAIN auctions /\ auctions[i].status = "revealing"))
  /\ [][\A i \in DOMAIN auctions :
          (auctions[i].status # "revealing" /\ auctions'[i].status = "revealing")
            => ~ \/ \E s \in Sessions, u \in Updates : PATCH(s, "A1", u)
                 \/ DeleteWrite
                 \/ \E r \in DOMAIN bidReq : BidInsert(r)]_vars

(***************************************************************************)
(* SpecCreate: the auction creation requests of one user, with the clock   *)
(* in seconds.                                                             *)
(***************************************************************************)
NextCreate ==
  \/ Elapse
  \/ \E s \in {"p1", "p3"}, up \in BOOLEAN : CreateAuctionWithin(s, up, MaxCreated)

SpecCreate == Init /\ [][NextCreate]_vars

\* the rows that the seller created during the last window of the auction
\* creation limiter
CreatedInWindow(sellerId) ==
  {i \in DOMAIN auctions :
     /\ auctions[i].seller_id = sellerId
     /\ auctions[i].ends_at - Duration > now - rateLimiters.auctionCreation.window}

\* C21: no user has more than 5 auction rows created within 3600 seconds: the
\* sixth creation request in the window is rejected and inserts no row.
C21_FiveAuctionsPerHour ==
  \A u \in Users :
    Cardinality(CreatedInWindow(u)) <= rateLimiters.auctionCreation.tokens

(***************************************************************************)
(* The answers of the webhook.                                             *)
(***************************************************************************)
\* C22: a batch whose signature header is present and is not the HMAC of
\* the raw body is answered 401, whatever the header's value and length.
C22_BadSignatureIs401 ==
  [][\A b \in RawBodies, h \in SigHeaders \ {NoHeader}, n \in 0..MaxBatch :
       (WebhookPOST(b, h, n) /\ ~Authentic(b, h)) =>
         resp'.op = "webhook" /\ resp'.status = 401]_vars

UnknownEvents == {e \in AuctionEvents : e.type \notin KnownTypes}

PRIVATE_AUCTION_PROGRAM_ID == "AuctionPrvt1111111111111111111111111111111"

\* PublicKey.findProgramAddressSync: a digest of the seeds and the program
findProgramAddressSync(seeds, programId) == [seeds |-> seeds, program |-> programId]

\* the addresses that buildCreateAuctionTransaction derives when it runs at
\* clock (seconds): timestamp = Math.floor(Date.now() / 1000) is a seed
createAuctionPDAs(seller, clock) ==
  LET timestamp == clock
      auctionPDA == findProgramAddressSync(<<"auction", seller, timestamp>>,
                                           PRIVATE_AUCTION_PROGRAM_ID)
  IN [auction |-> auctionPDA,
      productMetadata |-> findProgramAddressSync(<<"product", auctionPDA>>,
                                                 PRIVATE_AUCTION_PROGRAM_ID),
      escrow |-> findProgramAddressSync(<<"escrow", auctionPDA>>,
                                        PRIVATE_AUCTION_PROGRAM_ID)]

\* C24: a build of the create-auction transaction now references the same
\* auction, product-metadata and escrow addresses as a build with the same
\* parameters at any other time.
C24_AddressesPure ==
  \A seller \in Wallets, t \in 0..MaxClock :
    createAuctionPDAs(seller, now) = createAuctionPDAs(seller, t)


(***************************************************************************)
(* Settlement of an auction with revealed bids.                            *)
(***************************************************************************)
\* the events of an auction that takes two bids, reveals them and settles;
\* AUCTION_SETTLED carries the winner and the settlement amount
SettleEvents ==
       {e \in Events :
          \/ /\ e.type = "BID_SUBMITTED" /\ e.auctionId = "A1"
             /\ \/ e.bidId = "B1" /\ e.commitmentHash = OwnCommitment("p1")
                \/ e.bidId = "B2" /\ e.commitmentHash = OwnCommitment("p2")
          \/ e.type = "BID_REVEALED"}
  \cup {[type |-> "AUCTION_SETTLED", auctionId |-> "A1", winner |-> w,
         settlementAmount |-> x] : w \in {"w1", "w2"}, x \in Amounts}

NextSettle ==
  \/ \E s \in {"p1", "p2"} : BidCheck(1, s, "A1", OwnCommitment(s), TRUE, "true", TRUE)
  \/ BidInsert(1)
  \/ WebhookPOST("body1", HmacHex(HELIUS_WEBHOOK_SECRET, "body1"), MaxBatch)
  \/ \E e \in SettleEvents : WebhookEvent(e)
  \/ WebhookDone

SpecSettle == InitBids /\ [][NextSettle]_vars

\* the revealed bids of an auction, and the order (amount descending,
\* submission order ascending) on them; a bid's submission order is the
\* position of its row
RevealedBids(auctionId) ==
  {i \in DOMAIN bids : bids[i].auction_id = auctionId /\ bids[i].revealed}

Before(i, j) ==
  \/ bids[i].amount > bids[j].amount
  \/ bids[i].amount = bids[j].amount /\ i < j

RankedBid(auctionId, k) ==
  CHOOSE i \in RevealedBids(auctionId) :
    Cardinality({j \in RevealedBids(auctionId) : Before(j, i)}) = k - 1

\* C25: when an auction with at least two revealed bids is settled, the
\* winner is the first bid in the order (amount descending, submission order
\* ascending) of its revealed bids and the settlement price is the amount of
\* the second bid in that order.
C25_SecondPriceOfRevealedOrder ==
  [][\A e \in SettleEvents :
       ( /\ e.type = "AUCTION_SETTLED"
         /\ WebhookEvent(e)
         /\ Cardinality(RevealedBids(e.auctionId)) >= 2 )
       => /\ UserOfWallet(e.winner) # NoRow
          /\ UserOfWallet(e.winner).id = bids[RankedBid(e.auctionId, 1)].bidder_id
          /\ e.settlementAmount = bids[RankedBid(e.auctionId, 2)].amount]_vars

(***************************************************************************)
(* executeWithRetry for every maxRetries, with no health check running.    *)
(***************************************************************************)
NextRetry ==
  \/ \E e \in Endpoints, h \in BOOLEAN : SetHealth(e, h)
  \/ \E n \in 0..MaxRetries : RetryStartWith(n)
  \/ RetryCall
  \/ RetryWake

SpecRetry == InitPool /\ [][NextRetry]_vars

\* C26: a call of executeWithRetry that has thrown has thrown the error of
\* its last attempt (index maxRetries - 1), an error that an attempt raised;
\* a call that has returned had an attempt succeed.
C26_LastErrorPropagated ==
  /\ (retry.pc = "idle" /\ retry.result = "throw") =>
       /\ ~retry.lastError.null
       /\ retry.lastError = ErrorOf(retry.maxRetries - 1)
       /\ Len(retry.on) = retry.maxRetries
  /\ (retry.pc = "idle" /\ retry.result = "ok") =>
       /\ Len(retry.on) >= 1
       /\ Len(retry.on) = retry.attempt + 1

\* C27: no auction is cancelled with a bid_count above 0, and the update of
\* a cancel request changes the status of no auction that is not active any
\* more.
C27_CancelIsCompareAndSwap ==
  /\ [](\A i \in DOMAIN auctions :
          ~(auctions[i].status = "cancelled" /\ auctions[i].bid_count > 0))
  /\ [][DeleteWrite =>
          \A i \in DOMAIN auctions :
            auctions[i].status # "active" =>
              auctions'[i].status = auctions[i].status]_vars

\* C28: while a call of executeWithRetry is in flight, the pool does not go
\* from fallback to primary.
C28_NoSwitchBackMidRetry ==
  [][retry.pc # "idle" =>
       ~(pool.current = "fallback" /\ pool'.current = "primary")]_vars

\* C29: the attempt with index 2 runs on fallback, with the pool on fallback;
\* a call with maxRetries = 3 that starts on primary and fails in every
\* attempt has run its attempts on primary, primary, fallback.
C29_FailoverBeforeThirdAttempt ==
  /\ Len(retry.on) >= 3 => retry.on[3] = "fallback"
  /\ (retry.pc = "call" /\ retry.attempt = 2) =>
       retry.conn = "fallback" /\ pool.current = "fallback"
  /\ ( /\ retry.pc = "idle" /\ retry.result = "throw"
       /\ retry.maxRetries = 3 /\ retry.on[1] = "primary" ) =>
       retry.on = <<"primary", "primary", "fallback">>

\* a call with maxRetries = 3 that started on primary has failed three times
C29_Witness ==
  /\ retry.pc = "idle" /\ retry.result = "throw"
  /\ retry.maxRetries = 3
  /\ retry.lastError = ErrorOf(2)
  /\ retry.on = <<"primary", "primary", "fallback">>
  /\ pool.current = "fallback"

\* C30: the wait after the failed attempt with index k is
\* min(1000 * 2^k, 30000) ms, so no wait is above 30000 ms.
C30_BackoffCapped ==
  retry.pc = "backoff" =>
    /\ retry.delay = IF 1000 * (2 ^ retry.attempt) < 30000
                     THEN 1000 * (2 ^ retry.attempt) ELSE 30000
    /\ retry.delay <= 30000

(***************************************************************************)
(* What a caller of executeWithRetry sees.                                 *)
(***************************************************************************)
\* the connections that the attempts of the last call were made on
AttemptedOn == {retry.on[k] : k \in DOMAIN retry.on}

\* C31: a call of executeWithRetry that has thrown has attempted the
\* operation on the primary and on the fallback endpoint.
C31_ThrowsOnlyAfterBothEndpoints ==
  (retry.pc = "idle" /\ retry.result = "throw") => AttemptedOn = Endpoints

\* awaited promises settle: the operation returns or throws, the timer fires
SpecRetryFair == SpecRetry /\ WF_vars(RetryCall) /\ WF_vars(RetryWake)

\* C32: a call of executeWithRetry ends; it invokes the operation at most
\* maxRetries times; an attempt that succeeds ends the call with no further
\* invocation (the operation is invoked only when a call starts and after a
\* backoff), and a call throws only with maxRetries failed attempts behind
\* it.
C32_TerminatesWithinBudget ==
  /\ [](Len(retry.on) <= retry.maxRetries)
  /\ []((retry.pc = "idle" /\ retry.result = "throw") =>
          Len(retry.on) = retry.maxRetries)
  /\ [][/\ (RetryCall /\ health[retry.conn]) =>
             /\ retry'.pc = "idle" /\ retry'.result = "ok"
             /\ retry'.on = retry.on
        /\ (RetryCall /\ retry'.result = "throw") =>
             /\ ~health[retry.conn]
             /\ retry.attempt = retry.maxRetries - 1
        /\ retry'.on # retry.on =>
             \/ retry.pc = "backoff" /\ Len(retry'.on) = Len(retry.on) + 1
             \/ retry.pc = "idle" /\ retry'.attempt = 0 /\ Len(retry'.on) <= 1]_vars
  /\ (retry.pc # "idle") ~> (retry.pc = "idle")

\* a call with maxRetries = 3 has returned from its second attempt
C32_Witness ==
  /\ retry.pc = "idle" /\ retry.result = "ok"
  /\ retry.maxRetries = 3
  /\ retry.attempt = 1 /\ Len(retry.on) = 2
  /\ ~retry.lastError.null

(***************************************************************************)
(* AUCTION_CREATED and the identity of an auction.                         *)
(***************************************************************************)
CreatedEvents == {e \in Events : e.type = "AUCTION_CREATED"}

\* C33: processing an AUCTION_CREATED event leaves every auction that is not
\* a pending auction of the event's seller as it is (status and on-chain id),
\* and changes nothing but auctions; what the webhook's step stores is that
\* outcome.
C33_CreatedTouchesOnlyPending ==
  /\ [](\A e \in CreatedEvents :
          LET m == Dispatch(Mirror, e)
          IN /\ DOMAIN m.auctions = DOMAIN auctions
             /\ m.bids = bids /\ m.fulfillments = fulfillments
             /\ \A i \in DOMAIN auctions :
                  (auctions[i].status # "pending" \/ auctions[i].seller_id # e.seller)
                    => m.auctions[i] = auctions[i])
  /\ [][\A e \in CreatedEvents \cap AuctionEvents :
          WebhookEvent(e) =>
            \A i \in DOMAIN auctions :
              (auctions[i].status # "pending" \/ auctions[i].seller_id # e.seller)
                => auctions'[i] = auctions[i]]_vars

\* the seller's first auction is settled, and the AUCTION_CREATED event of
\* the second one has made that one active
C33_Witness ==
  /\ Len(auctions) = 2
  /\ auctions[1].seller_id = "u1" /\ auctions[2].seller_id = "u1"
  /\ auctions[1].status = "settled" /\ auctions[1].on_chain_id = "A1"
  /\ auctions[2].status = "active" /\ auctions[2].on_chain_id = "A1"

\* C34: no two auction rows carry the same on-chain id.
C34_OnChainIdIsIdentity ==
  \A i, j \in DOMAIN auctions :
    (i # j /\ auctions[i].on_chain_id # NULL) =>
      auctions[i].on_chain_id # auctions[j].on_chain_id

(***************************************************************************)
(* Bid submissions and the state of the auction.                           *)
(***************************************************************************)
\* the auction is one that takes bids now
TakesBids(auction) == auction.status = "active" /\ auction.ends_at >= now

\* C35: a bid submission for an auction that is not active or is past its
\* ends_at is rejected with no transaction and goes to no insert; a request
\* reaches its insert only in a step in which the auction is active and not
\* past ends_at, and a bid row is added only by a request at its insert.
C35_BidsOnlyWhileActive ==
  /\ [](\A s \in Sessions, al \in BOOLEAN, p \in ProofOutcomes, ok \in BOOLEAN :
          LET out == BidChecked(s, "A1", OwnCommitment(s), al, p, ok)
              auction == AuctionOf("A1")
          IN /\ (auction # NoRow /\ ~TakesBids(auction)) =>
                  /\ out.slot = IdleBid
                  /\ out.resp.op = "bid" /\ out.resp.status >= 400
                  /\ out.resp.tx = <<>> /\ out.resp.bidId = 0
             /\ out.slot.pc = "insert" =>
                  auction # NoRow /\ TakesBids(auction))
  /\ [][/\ \A r \in DOMAIN bidReq :
             (bidReq[r].pc = "idle" /\ bidReq'[r].pc = "insert") =>
               /\ AuctionOf(bidReq'[r].auction_id) # NoRow
               /\ TakesBids(AuctionOf(bidReq'[r].auction_id))
               /\ bids' = bids
        /\ bids' # bids =>
             \/ \E r \in DOMAIN bidReq :
                  /\ bidReq[r].pc = "insert" /\ bidReq'[r].pc = "idle"
                  /\ Len(bids') = Len(bids) + 1
             \/ Len(bids') = Len(bids)]_vars

\* a submission for the settled auction was rejected, and no bid row exists
C35_Witness ==
  /\ resp.op = "bid" /\ resp.status = 400
  /\ resp.error = "Auction is not accepting bids"
  /\ AuctionOf("A1") # NoRow /\ AuctionOf("A1").status = "settled"
  /\ bids = <<>>
  /\ \A r \in DOMAIN bidReq : bidReq[r].pc = "idle"

(***************************************************************************)
(* The priority fee.                                                       *)
(***************************************************************************)
\* transactions of up to two instructions
SampleTransactions ==
  LET ixs == {SubmitBidIx, RevealBidIx, computeLimitIx}
  IN {<<>>} \cup {<<a>> : a \in ixs} \cup {<<a, b>> : a \in ixs, b \in ixs}

\* C38: addPriorityFee puts the compute-unit price of the tier (10000, 50000,
\* 200000) and then the compute-unit limit in front of the instructions of
\* the transaction, which follow unchanged; the transaction of an accepted
\* bid submission is that pair and then the SUBMIT_BID instruction.
C38_PriorityFeePairInFront ==
  /\ \A level \in {"low", "medium", "high"}, t \in SampleTransactions :
       LET out == addPriorityFee(t, level)
       IN /\ Len(out) = Len(t) + 2
          /\ out[1].name = "setComputeUnitPrice"
          /\ out[1].value = CASE level = "low" -> 10000
                              [] level = "medium" -> 50000
                              [] level = "high" -> 200000
          /\ out[2].name = "setComputeUnitLimit"
          /\ SubSeq(out, 3, Len(out)) = t
  /\ (resp.op = "bid" /\ resp.status = 200) =>
       /\ Len(resp.tx) = 3
       /\ resp.tx[1].name = "setComputeUnitPrice"
       /\ resp.tx[1].value \in {10000, 50000, 200000}
       /\ resp.tx[2].name = "setComputeUnitLimit"
       /\ resp.tx[3] = SubmitBidIx

\* a bid submission was accepted and its transaction returned
C38_Witness ==
  /\ resp.op = "bid" /\ resp.status = 200 /\ resp.bidId # 0
  /\ resp.tx = <<computeBudgetIx("medium"), computeLimitIx, SubmitBidIx>>
  /\ resp.tx # addPriorityFee_pushed(<<SubmitBidIx>>, "medium")

(***************************************************************************)
(* The response of a bid submission and the bid row.                       *)
(***************************************************************************)
\* C36: the insert step of a bid submission answers with success (bidId and
\* transaction) exactly when it adds a bid row, which is unrevealed and
\* carries the submitted commitment hash; otherwise it answers with an error
\* and the bids are as before.  A submission whose transaction build fails
\* is answered with an error before any insert, and no step before the
\* insert answers with success.
C36_SuccessIffRowInserted ==
  /\ \A r \in DOMAIN bidReq :
       bidReq[r].pc = "insert" =>
         LET out == BidInserted(bidReq[r])
             success == out.resp.status = 200
         IN /\ success <=> Len(out.bids) = Len(bids) + 1
            /\ success =>
                 /\ out.resp.bidId = Len(out.bids) /\ out.resp.tx = bidReq[r].tx
                 /\ out.resp.tx # <<>>
                 /\ SubSeq(out.bids, 1, Len(bids)) = bids
                 /\ ~out.bids[Len(out.bids)].revealed
                 /\ out.bids[Len(out.bids)].commitment_hash = bidReq[r].commitment_hash
            /\ ~success =>
                 /\ out.bids = bids
                 /\ out.resp.status >= 400
                 /\ out.resp.bidId = 0 /\ out.resp.tx = <<>>
  /\ \A s \in Sessions, al \in BOOLEAN, p \in ProofOutcomes, ok \in BOOLEAN :
       LET out == BidChecked(s, "A1", OwnCommitment(s), al, p, ok)
       IN /\ ~ok => out.slot = IdleBid
          /\ out.slot = IdleBid =>
               /\ out.resp.op = "bid" /\ out.resp.status >= 400
               /\ out.resp.bidId = 0 /\ out.resp.tx = <<>>
          /\ out.slot # IdleBid =>
               /\ out.slot.pc = "insert"
               /\ out.slot.commitment_hash = OwnCommitment(s)
               /\ out.slot.tx # <<>>

\* the transaction build of a submission failed: an error and no bid row
C36_Witness ==
  /\ resp.op = "bid" /\ resp.status = 500
  /\ resp.error = "Internal server error"
  /\ resp.tx = <<>> /\ resp.bidId = 0
  /\ bids = <<>>
  /\ \A r \in DOMAIN bidReq : bidReq[r].pc = "idle"

(***************************************************************************)
(* The transaction builders on proofs of any length.                       *)
(***************************************************************************)
NextBuild ==
  \/ \E n \in ProofLengths, ok \in BOOLEAN : BuildSubmitBid(n, ok)
  \/ \E a \in Amounts \cup {-1}, n \in ProofLengths, ok \in BOOLEAN :
       BuildRevealBid(a, n, ok)
  \/ BuildDone

SpecBuild == Init /\ [][NextBuild]_vars

\* the value of little-endian bytes
RECURSIVE FromLittleEndian(_)
FromLittleEndian(bytes) ==
  IF bytes = <<>> THEN 0
  ELSE bytes[1] + 256 * FromLittleEndian(Tail(bytes))

\* the data holds the whole proof behind a header of this size, and the
\* length prefix in the last four bytes of the header is the number of bytes
\* behind it
ProofInFull(data, header, n) ==
  /\ Len(data) >= header
  /\ FromLittleEndian(SubSeq(data, header - 3, header)) = Len(data) - header
  /\ SubSeq(data, header + 1, Len(data)) = ProofBytes(n)

\* C37: a build of a submit-bid or reveal-bid transaction that does not fail
\* has instruction data with every field in full: the discriminator, the
\* amount in 8 bytes, and the proof with a length prefix that equals the
\* number of proof bytes in the data.
C37_NoSilentTruncation ==
  /\ (built.op = "submit" /\ ~built.thrown) =>
       /\ ProofInFull(built.data, SubmitBidHeader, built.proofLen)
       /\ built.data[1] = 1
  /\ (built.op = "reveal" /\ ~built.thrown) =>
       /\ ProofInFull(built.data, RevealBidHeader, built.proofLen)
       /\ built.data[1] = 2
       /\ FromLittleEndian(SubSeq(built.data, 2, 9)) = built.amount

====
